---- MODULE Spec2Model ----
(***************************************************************************)
(* Model of protocol.Broker (src/protocol/broker.go): one connection       *)
(* handle, its lock, the pending-promise queue, the responseReceiver       *)
(* goroutine, and the remote peer on the other end of the socket.          *)
(*                                                                         *)
(* The socket stream is a sequence of 4-byte words.  A response frame is   *)
(* the 8-byte header (two words) followed by the body.                     *)
(***************************************************************************)
EXTENDS Integers, Sequences, FiniteSets, TLC

\* ------------------------------------------------------------------ bounds
NumCallers == 2        \* goroutines calling the typed RPC methods at the same time
CorrBits == 2          \* width of correlation_id in the model (int32 in the code)
MaxStream == 6         \* words the socket buffers from the peer before the peer must wait
MaxFaulty == 2         \* frames followed on one connection from the peer's first protocol violation on

\* --------------------------------------------------------- program constants
QueueCap == 4          \* make(chan responsePromise, 4)
HeaderWords == 2       \* header := make([]byte, 8)
UnknownID == -1        \* b.id = -1

\* Any goroutine may call any method.  A call of Connect or Close is under way
\* only while it holds the lock, so one goroutine making those calls, beside the
\* callers of the RPC methods, yields every interleaving of the methods.
Callers == 1..NumCallers
\* As many callers as it takes to fill the queue and keep one sender waiting to
\* enqueue (one promise is with the dispatcher), and one caller more.
Awaiters == 1..(QueueCap + 2)
NoAcker == QueueCap + 3
Manager == QueueCap + 4
Managers == {Manager}
Tasks == 1..Manager
CorrMod == 2 ^ CorrBits
MinCorr == -(2 ^ (CorrBits - 1))
MaxCorr == 2 ^ (CorrBits - 1) - 1

\* Values of the interface field b.conn: the nil interface, an interface
\* holding a nil *TCPConn (what a failed DialTCP leaves), an open socket.
Nil == "nil"
NilPtr == "nilptr"
Open == "open"
NoTask == 0
\* A channel of promises: the nil channel, or one made by make(chan responsePromise, 4)
NilChan == [made |-> FALSE, q |-> <<>>, closed |-> FALSE]
MakeChan == [made |-> TRUE, q |-> <<>>, closed |-> FALSE]

Hosts == {"h1", "h2"}
Ports == {9092, 9093}
BrokerIDs == {UnknownID, 7}

VARIABLES
    id, host, port,     \* Broker identity fields
    correlation_id,     \* Broker.correlation_id
    conn,               \* Broker.conn
    lock,               \* Broker.lock: the task holding it, or NoTask
    responses,          \* Broker.responses: NilChan or a made channel
    done,               \* Broker.done: Nil, "open" or "closed"
    pc,                 \* per task: where it is in the method it called
    req,                \* per task: the request of a caller waiting at b.lock.Lock()
    arg,                \* per task: the argument and locals of the lock-free method it runs
    promise,            \* per task: the promise made by its call of send
    rr,                 \* the responseReceiver goroutine: pc and locals
    stream,             \* socket, peer -> client: words not yet read
    wire,               \* socket, client -> peer: awaited requests not yet answered
    eof,                \* the peer closed or reset the socket
    faulty,             \* frames the peer has sent since its first protocol violation on this connection
    panicked,           \* the process died of a run-time panic
    ret,                \* the return the latest step made to a caller, NoRet if it made none
    written,            \* requests written since NewBroker, modulo CorrMod
    sinceConnect,       \* requests written since the last successful Connect, modulo CorrMod
    sent,               \* per task: values the dispatcher has sent on its promise
    age,                \* per task: requests written since the one of its promise, up to CorrMod
    owed                \* the caller whose well-framed response follows a frame of mismatching id

idVars == <<id, host, port, arg>>
sockVars == <<stream, wire, eof, faulty>>
vars == <<id, host, port, correlation_id, conn, lock, responses, done, pc, req, arg, promise,
          rr, stream, wire, eof, faulty, panicked, ret, written, sinceConnect, sent, age,
          owed>>

\* ----------------------------------------------------------------- helpers
NoPromise == [correlation_id |-> 0, ch |-> NoTask]
NoReq == [rpc |-> "none", acks |-> 0]
NoArg == [id |-> 0, host |-> "", port |-> 0, isNil |-> TRUE, eq |-> TRUE]
NoRet == [task |-> NoTask, op |-> "none", kind |-> "none", err |-> "none", buf |-> <<>>]
IdleRR == [pc |-> "none", response |-> NoPromise,
           header |-> [correlation_id |-> 0, length |-> 0], err |-> "none", buf |-> <<>>]

RetErr(t, op, e) == [task |-> t, op |-> op, kind |-> "err", err |-> e, buf |-> <<>>]
RetNil(t, op) == [task |-> t, op |-> op, kind |-> "nil", err |-> "none", buf |-> <<>>]
RetPacket(t, op, b) == [task |-> t, op |-> op, kind |-> "packet", err |-> "none", buf |-> b]
RetValue(t, op, v) == [task |-> t, op |-> op, kind |-> "value", err |-> "none", buf |-> <<v>>]

\* b.correlation_id++ on an int32: wraps from the largest value to the smallest
IncWrap_stuck(c) == c
IncWrap_saturating(c) == IF c = MaxCorr THEN c ELSE c + 1
IncWrap(c) == IF c = MaxCorr THEN MinCorr ELSE c + 1

Count(n) == (n + 1) % CorrMod

SubSeqFrom(s, k) == SubSeq(s, k, Len(s))

\* The response header (spec 4.2: 4-byte correlation id, 4-byte total length).
DecodeHeader(h) == [correlation_id |-> h[1], length |-> h[2]]
\* enc.Decode(header, &decodedHeader) fails on a length that cannot hold the id
HeaderDecodeFails(h) == DecodeHeader(h).length < 4

\* buf := make([]byte, decodedHeader.length-4), in words
BodyWords_whole(h) == h.length \div 4
BodyWords(h) == (h.length - 4) \div 4

\* decodedHeader.correlation_id != response.correlation_id
Mismatch_unchecked(h, p) == FALSE
Mismatch(h, p) == h.correlation_id # p.correlation_id

\* ------------------------------------------------------------ the remote peer
\* The frame an in-order peer answers request r with: the body carries the
\* client id of the request, a marker of the caller.
PeerBody(r) == <<r.clientID>>
Frame(c, body) == <<c, 4 + 4 * Len(body)>> \o body

\* ------------------------------------------------------------------- Init
\* NewBroker(host, port): identity only, everything else the zero value.
NewBroker(h, p) ==
    /\ id = UnknownID
    /\ host = h
    /\ port = p
    /\ correlation_id = 0
    /\ conn = Nil
    /\ lock = NoTask
    /\ responses = NilChan
    /\ done = Nil

Init ==
    /\ NewBroker("h1", 9092)
    /\ pc = [t \in Tasks |-> "idle"]
    /\ req = [t \in Tasks |-> NoReq]
    /\ arg = [t \in Tasks |-> NoArg]
    /\ promise = [t \in Tasks |-> NoPromise]
    /\ rr = IdleRR
    /\ stream = <<>>
    /\ wire = <<>>
    /\ eof = FALSE
    /\ faulty = 0
    /\ panicked = FALSE
    /\ ret = NoRet
    /\ written = 0
    /\ sinceConnect = 0
    /\ sent = [t \in Tasks |-> 0]
    /\ age = [t \in Tasks |-> 0]
    /\ owed = NoTask

\* ---------------------------------------------------------------- Connect
\* if b.conn != nil { return AlreadyConnected }
ConnectRejects(c) == c # Nil

\* Lock, then the check of b.conn; an accepted call goes on to dial, holding the lock.
Connect(t) ==
    /\ ~panicked /\ pc[t] = "idle" /\ lock = NoTask
    /\ IF ConnectRejects(conn)
         THEN /\ ret' = RetErr(t, "Connect", "AlreadyConnected")
              /\ UNCHANGED <<lock, pc>>
         ELSE /\ lock' = t
              /\ pc' = [pc EXCEPT ![t] = "dial"]
              /\ ret' = NoRet
    /\ UNCHANGED <<idVars, sockVars, correlation_id, conn, responses, done, req, promise, rr,
                   panicked, written, age, sinceConnect, sent, owed>>

\* net.ResolveIPAddr, net.DialTCP, and on success the channels and the goroutine.
\* A failed DialTCP has already stored its nil *TCPConn in the interface b.conn.
ConnectDial(t, resolved, dialed) ==
    /\ ~panicked /\ pc[t] = "dial"
    /\ pc' = [pc EXCEPT ![t] = "idle"]
    /\ lock' = NoTask
    /\ IF ~resolved
         THEN /\ ret' = RetErr(t, "Connect", "ResolveError")
              /\ UNCHANGED <<sockVars, conn, done, responses, rr, sinceConnect, owed>>
         ELSE IF ~dialed
         THEN /\ conn' = NilPtr
              /\ ret' = RetErr(t, "Connect", "DialError")
              /\ UNCHANGED <<sockVars, done, responses, rr, sinceConnect, owed>>
         ELSE /\ conn' = Open
              /\ done' = "open"
              /\ responses' = MakeChan
              /\ rr' = [IdleRR EXCEPT !.pc = "range"]
              /\ stream' = <<>>
              /\ wire' = <<>>
              /\ eof' = FALSE
              /\ faulty' = 0
              /\ sinceConnect' = 0
              /\ owed' = NoTask
              /\ ret' = RetNil(t, "Connect")
    /\ UNCHANGED <<idVars, correlation_id, req, promise, panicked, written, age, sent>>

\* ------------------------------------------------------------------ Close
\* if b.conn == nil { return NotConnected }
CloseRejects(c) == c = Nil

\* <-b.done returns once the dispatcher has closed the channel
DoneReceived_unawaited(d) == TRUE
DoneReceived(d) == d = "closed"

\* b.conn = nil
ConnAfterClose_kept == Open
ConnAfterClose == Nil

\* Lock, the check of b.conn, close(b.responses); closing a nil channel panics.
Close(t) ==
    /\ ~panicked /\ pc[t] = "idle" /\ lock = NoTask
    /\ IF CloseRejects(conn)
         THEN /\ ret' = RetErr(t, "Close", "NotConnected")
              /\ UNCHANGED <<lock, pc, responses, panicked>>
         ELSE IF responses = NilChan
         THEN /\ panicked' = TRUE
              /\ ret' = NoRet
              /\ UNCHANGED <<lock, pc, responses>>
         ELSE /\ responses' = [responses EXCEPT !.closed = TRUE]
              /\ lock' = t
              /\ pc' = [pc EXCEPT ![t] = "closeWait"]
              /\ ret' = NoRet
              /\ UNCHANGED panicked
    /\ UNCHANGED <<idVars, sockVars, correlation_id, conn, done, req, promise, rr,
                   written, age, sinceConnect, sent, owed>>

\* <-b.done, b.conn.Close(), and the three fields set to nil.
CloseFinish(t, closeErr) ==
    /\ ~panicked /\ pc[t] = "closeWait"
    /\ DoneReceived(done)
    /\ conn' = ConnAfterClose
    /\ done' = Nil
    /\ responses' = NilChan
    /\ stream' = <<>>
    /\ wire' = <<>>
    /\ eof' = FALSE
    /\ faulty' = 0
    /\ owed' = NoTask
    /\ lock' = NoTask
    /\ pc' = [pc EXCEPT ![t] = "idle"]
    /\ ret' = IF closeErr THEN RetErr(t, "Close", "CloseError") ELSE RetNil(t, "Close")
    /\ UNCHANGED <<idVars, correlation_id, req, promise, rr, panicked,
                   written, age, sinceConnect, sent>>

\* ------------------------------------------------- the typed RPC methods
RPCs == {"GetMetadata", "Produce"}
NO_RESPONSE == 0
WAIT_FOR_LOCAL == 1
Acks == {NO_RESPONSE, WAIT_FOR_LOCAL}
Request(rpc, acks) == [rpc |-> rpc, acks |-> acks]
NoAckProduce == Request("Produce", NO_RESPONSE)

\* Produce passes a nil res when request.RequiredAcks == types.NO_RESPONSE;
\* every other method passes a fresh response (res != nil).
WantsResponse_always(r) == TRUE
WantsResponse(r) == ~(r.rpc = "Produce" /\ r.acks = NO_RESPONSE)

\* A typed method calls sendAndReceive, which calls send: the caller waits at b.lock.Lock().
Call(t, rpc, acks) ==
    /\ ~panicked /\ pc[t] = "idle"
    /\ pc' = [pc EXCEPT ![t] = "send"]
    /\ req' = [req EXCEPT ![t] = Request(rpc, acks)]
    /\ ret' = NoRet
    /\ UNCHANGED <<idVars, sockVars, correlation_id, conn, lock, responses, done, promise, rr,
                   panicked, written, age, sinceConnect, sent, owed>>

\* ------------------------------------------------------------------- send
\* b.conn.Write(buf) on an open socket may fail once the peer has closed or reset it.
WriteFails(writes) == conn = Open /\ eof /\ ~writes

\* defer b.lock.Unlock(): the lock is held until send returns, the enqueue included
UnlockDeferred_early(t) == NoTask
UnlockDeferred(t) == t

\* promise := responsePromise{fullRequest.correlation_id, ...}
PromiseID(c) == c

\* send up to the enqueue: Lock, the check of b.conn, Encode, Write, correlation_id++,
\* and the return of a call that awaits no response.  The caller is at `from`.
\* On the nil *TCPConn of a failed dial, Write returns EINVAL or dereferences nil,
\* depending on the Go release: `writes` picks which.
send(t, from, r, encodes, writes) ==
    /\ ~panicked /\ pc[t] = from /\ lock = (IF from = "write" THEN t ELSE NoTask)
    /\ req' = [req EXCEPT ![t] = NoReq]
    /\ IF conn = Nil \/ ~encodes \/ (conn = NilPtr /\ ~writes) \/ WriteFails(writes)
         THEN /\ ret' = RetErr(t, "sendAndReceive",
                          IF conn = Nil THEN "NotConnected"
                          ELSE IF ~encodes THEN "EncodeError" ELSE "WriteError")
              /\ pc' = [pc EXCEPT ![t] = "idle"]
              /\ UNCHANGED <<correlation_id, promise, wire, written, age, sinceConnect,
                             sent, panicked>>
         ELSE IF conn = NilPtr
         THEN /\ panicked' = TRUE
              /\ ret' = NoRet
              /\ UNCHANGED <<correlation_id, promise, wire, written, age, sinceConnect,
                             sent, pc>>
         ELSE /\ correlation_id' = IncWrap(correlation_id)
              /\ written' = Count(written)
              /\ sinceConnect' = Count(sinceConnect)
              /\ age' = [u \in Tasks |-> IF u = t \/ promise[u] = NoPromise THEN 0
                                         ELSE IF age[u] < CorrMod THEN age[u] + 1 ELSE age[u]]
              /\ UNCHANGED panicked
              /\ IF ~WantsResponse(r)
                   THEN /\ ret' = RetNil(t, "sendAndReceive")
                        /\ pc' = [pc EXCEPT ![t] = "idle"]
                        /\ UNCHANGED <<promise, wire, sent>>
                   ELSE /\ promise' = [promise EXCEPT ![t] =
                               [correlation_id |-> PromiseID(correlation_id), ch |-> t]]
                        /\ sent' = [sent EXCEPT ![t] = 0]
                        /\ wire' = IF eof THEN wire
                                   ELSE Append(wire, [correlation_id |-> correlation_id,
                                                      clientID |-> t])
                        /\ pc' = [pc EXCEPT ![t] = "enqueue"]
                        /\ ret' = NoRet
    /\ lock' = IF pc'[t] = "enqueue" THEN UnlockDeferred(t)
               ELSE IF panicked' THEN lock ELSE NoTask
    /\ UNCHANGED <<idVars, conn, responses, done, rr, stream, eof, faulty, owed>>

\* A typed method calls sendAndReceive, which calls send and finds the lock free.
sendAndReceive(t, rpc, acks, encodes, writes) ==
    send(t, "idle", Request(rpc, acks), encodes, writes)

\* A caller that waited at b.lock.Lock() gets the lock.
sendLocked(t, encodes, writes) ==
    send(t, "send", req[t], encodes, writes)

\* b.conn.Write(buf) blocks while the socket's send buffer is full, which is up
\* to the peer: the caller is suspended in Write, holding the lock.
sendWriteBlocks(t) ==
    /\ ~panicked /\ pc[t] = "send" /\ lock = NoTask
    /\ conn = Open /\ ~eof
    /\ lock' = t
    /\ pc' = [pc EXCEPT ![t] = "write"]
    /\ ret' = NoRet
    /\ UNCHANGED <<idVars, sockVars, correlation_id, conn, responses, done, req, promise, rr,
                   panicked, written, age, sinceConnect, sent, owed>>

\* The peer has read from the socket: the Write goes on.
sendWriteResumes(t, writes) ==
    send(t, "write", req[t], TRUE, writes)

\* A channel made with a buffer of QueueCap takes a value without a receiver
\* while it holds fewer.
Buffered_unbounded(q) == TRUE
Buffered(q) == Len(q) < QueueCap

\* b.responses <- promise: blocks while the queue holds QueueCap promises; then Unlock.
sendEnqueue(t) ==
    /\ ~panicked /\ pc[t] = "enqueue"
    /\ Buffered(responses.q)
    /\ responses' = [responses EXCEPT !.q = Append(@, promise[t])]
    /\ lock' = NoTask
    /\ pc' = [pc EXCEPT ![t] = "await"]
    /\ ret' = NoRet
    /\ UNCHANGED <<idVars, sockVars, correlation_id, conn, done, req, promise, rr,
                   panicked, written, age, sinceConnect, sent, owed>>

\* --------------------------------------------------------- responseReceiver
Serving == rr.pc \in {"readHeader", "readBody", "sendPackets", "sendErrors"}

\* The dispatcher reaches a send on response.errors with error e.
Fail_dropped(r, e) == [IdleRR EXCEPT !.pc = "range"]
Fail(r, e) == [r EXCEPT !.pc = "sendErrors", !.err = e]

\* for response := range b.responses: the next promise, oldest first.
Dequeue(q) == Head(q)

\* The statement after a completed send on response.errors or response.packets:
\* `continue`, or the end of the loop body; either way the next promise.
AfterSend_fallthrough(r) ==
    IF r.pc = "sendErrors" /\ r.err = "DecodingError"
    THEN [r EXCEPT !.pc = "readBody"] ELSE [IdleRR EXCEPT !.pc = "range"]
AfterSend(r) == [IdleRR EXCEPT !.pc = "range"]

rrRange ==
    /\ ~panicked /\ rr.pc = "range"
    /\ responses # NilChan /\ Len(responses.q) > 0
    /\ rr' = [IdleRR EXCEPT !.pc = "readHeader", !.response = Dequeue(responses.q)]
    /\ responses' = [responses EXCEPT !.q = Tail(@)]
    /\ ret' = NoRet
    /\ UNCHANGED <<idVars, sockVars, correlation_id, conn, lock, done, pc, req, promise,
                   panicked, written, age, sinceConnect, sent, owed>>

\* The queue is closed and drained: the loop ends, close(b.done).
rrExit ==
    /\ ~panicked /\ rr.pc = "range"
    /\ responses # NilChan /\ Len(responses.q) = 0 /\ responses.closed
    /\ rr' = IdleRR
    /\ done' = "closed"
    /\ ret' = NoRet
    /\ UNCHANGED <<idVars, sockVars, correlation_id, conn, lock, responses, pc, req, promise,
                   panicked, written, age, sinceConnect, sent, owed>>

\* The caller next in the queue, when the frame read has a mismatching id and is
\* followed in the stream by that caller's own response, whole and well framed.
OwedAfter(h, p, rest, q) ==
    IF /\ Mismatch(h, p)
       /\ q # <<>>
       /\ BodyWords(h) >= 0
       /\ Len(rest) >= BodyWords(h) + HeaderWords + 1
       /\ SubSeq(rest, BodyWords(h) + 1, BodyWords(h) + HeaderWords + 1)
            = Frame(Head(q).correlation_id, PeerBody([clientID |-> Head(q).ch]))
    THEN Head(q).ch ELSE owed

\* io.ReadFull(b.conn, header), enc.Decode(header, &decodedHeader), the id check.
\* ReadFull blocks until the 8 bytes are there or the socket fails.
rrReadHeader ==
    /\ ~panicked /\ rr.pc = "readHeader"
    /\ IF Len(stream) >= HeaderWords
         THEN LET header == SubSeq(stream, 1, HeaderWords)
                  h == DecodeHeader(header) IN
              /\ stream' = SubSeqFrom(stream, HeaderWords + 1)
              /\ rr' = IF HeaderDecodeFails(header) THEN Fail(rr, "HeaderError")
                       ELSE IF Mismatch(h, rr.response)
                       THEN Fail([rr EXCEPT !.header = h], "DecodingError")
                       ELSE [rr EXCEPT !.pc = "readBody", !.header = h]
              /\ owed' = IF HeaderDecodeFails(header) THEN owed
                         ELSE OwedAfter(h, rr.response, stream', responses.q)
         ELSE /\ eof
              /\ stream' = <<>>
              /\ rr' = Fail(rr, "ReadError")
              /\ UNCHANGED owed
    /\ sent' = IF rr'.pc = "sendErrors"
               THEN [sent EXCEPT ![rr.response.ch] = @ + 1] ELSE sent
    /\ ret' = NoRet
    /\ UNCHANGED <<idVars, wire, eof, faulty, correlation_id, conn, lock, responses, done,
                   pc, req, promise, panicked, written, age, sinceConnect>>

\* io.ReadFull(b.conn, buf) for the length-4 bytes of the body.
rrReadBody ==
    /\ ~panicked /\ rr.pc = "readBody"
    /\ IF Len(stream) >= BodyWords(rr.header)
         THEN /\ stream' = SubSeqFrom(stream, BodyWords(rr.header) + 1)
              /\ rr' = [rr EXCEPT !.pc = "sendPackets",
                                  !.buf = SubSeq(stream, 1, BodyWords(rr.header))]
         ELSE /\ eof
              /\ stream' = <<>>
              /\ rr' = Fail(rr, "ReadError")
    /\ sent' = [sent EXCEPT ![rr.response.ch] = @ + 1]
    /\ ret' = NoRet
    /\ UNCHANGED <<idVars, wire, eof, faulty, correlation_id, conn, lock, responses, done,
                   pc, req, promise, panicked, written, age, sinceConnect, owed>>

\* response.errors <- err or response.packets <- buf, received by the select of
\* sendAndReceive in the one task that holds this promise: the channels are
\* unbuffered, so the send and the receive are one step.  On a payload the caller
\* returns enc.Decode(buf, res), which may fail.
Deliver(t, decodes) ==
    /\ ~panicked /\ rr.pc \in {"sendPackets", "sendErrors"}
    /\ pc[t] = "await" /\ promise[t] = rr.response
    /\ rr.pc = "sendErrors" => decodes
    /\ ret' = IF rr.pc = "sendErrors" THEN RetErr(t, "sendAndReceive", rr.err)
              ELSE IF decodes THEN RetPacket(t, "sendAndReceive", rr.buf)
              ELSE RetErr(t, "sendAndReceive", "BodyDecodeError")
    /\ pc' = [pc EXCEPT ![t] = "idle"]
    /\ promise' = [promise EXCEPT ![t] = NoPromise]
    /\ sent' = [sent EXCEPT ![t] = 0]
    /\ age' = [age EXCEPT ![t] = 0]
    /\ owed' = IF owed = t THEN NoTask ELSE owed
    /\ rr' = AfterSend(rr)
    /\ UNCHANGED <<idVars, sockVars, correlation_id, conn, lock, responses, done, req,
                   panicked, written, sinceConnect>>

\* ------------------------------------------------------------------ the peer
\* The peer answers the oldest awaited request it has not answered yet.
PeerRespond ==
    /\ ~panicked /\ conn = Open /\ ~eof /\ wire # <<>>
    /\ Len(stream) + Len(Frame(Head(wire).correlation_id, PeerBody(Head(wire)))) <= MaxStream
    /\ faulty < MaxFaulty
    /\ faulty' = IF faulty > 0 THEN faulty + 1 ELSE 0
    /\ stream' = stream \o Frame(Head(wire).correlation_id, PeerBody(Head(wire)))
    /\ wire' = Tail(wire)
    /\ ret' = NoRet
    /\ UNCHANGED <<idVars, eof, correlation_id, conn, lock, responses, done, pc, req,
                   promise, rr, panicked, written, age, sinceConnect, sent, owed>>

\* The peer closes the socket, or the network resets it.
PeerClose ==
    /\ ~panicked /\ conn = Open /\ ~eof
    /\ eof' = TRUE
    /\ wire' = <<>>
    /\ ret' = NoRet
    /\ UNCHANGED <<idVars, stream, faulty, correlation_id, conn, lock, responses, done, pc,
                   req, promise, rr, panicked, written, age, sinceConnect, sent, owed>>

\* The socket fails in the middle of a response: the header of the answer to the
\* oldest request arrives, its body does not.
PeerTruncate ==
    /\ ~panicked /\ conn = Open /\ ~eof /\ wire # <<>>
    /\ Len(stream) + HeaderWords <= MaxStream
    /\ stream' = stream \o SubSeq(Frame(Head(wire).correlation_id, PeerBody(Head(wire))),
                                  1, HeaderWords)
    /\ eof' = TRUE
    /\ wire' = <<>>
    /\ ret' = NoRet
    /\ UNCHANGED <<idVars, faulty, correlation_id, conn, lock, responses, done, pc, req,
                   promise, rr, panicked, written, age, sinceConnect, sent, owed>>

\* A peer that breaks the protocol: it answers a request that is not the oldest.
PeerReorder ==
    /\ ~panicked /\ conn = Open /\ ~eof /\ Len(wire) >= 2
    /\ Len(stream) + Len(Frame(wire[2].correlation_id, PeerBody(wire[2]))) <= MaxStream
    /\ faulty < MaxFaulty
    /\ faulty' = faulty + 1
    /\ stream' = stream \o Frame(wire[2].correlation_id, PeerBody(wire[2]))
    /\ wire' = <<wire[1]>> \o SubSeqFrom(wire, 3)
    /\ ret' = NoRet
    /\ UNCHANGED <<idVars, eof, correlation_id, conn, lock, responses, done, pc, req,
                   promise, rr, panicked, written, age, sinceConnect, sent, owed>>

\* A peer that breaks the protocol: it answers the oldest request with a frame
\* of the wrong id or the wrong length.
BogusIDs == {MinCorr}
BogusFrames ==
    {<<c, 0>> : c \in BogusIDs} \cup {Frame(c, <<>>) : c \in BogusIDs}
        \cup {Frame(c, <<0>>) : c \in BogusIDs}

PeerBogus(f) ==
    /\ ~panicked /\ conn = Open /\ ~eof /\ wire # <<>>
    /\ Len(stream) + Len(f) <= MaxStream
    /\ faulty < MaxFaulty
    /\ faulty' = faulty + 1
    /\ stream' = stream \o f
    /\ wire' = Tail(wire)
    /\ ret' = NoRet
    /\ UNCHANGED <<idVars, eof, correlation_id, conn, lock, responses, done, pc, req,
                   promise, rr, panicked, written, age, sinceConnect, sent, owed>>

\* ------------------------------------------------- ID, Equals, Decode
\* None of the three takes b.lock.  Each read or write of a field is one step,
\* so that a task can stand between the call and the access.
OtherBrokers ==
    {NoArg} \cup {[id |-> i, host |-> h, port |-> p, isNil |-> FALSE, eq |-> TRUE] :
                    i \in BrokerIDs, h \in Hosts, p \in Ports}

\* The fields task t is about to read and about to write.
Reads(t) ==
    CASE pc[t] \in {"ID", "Equals_id"} -> {"id"}
      [] pc[t] = "Equals_host" -> {"host"}
      [] pc[t] = "Equals_port" -> {"port"}
      [] pc[t] = "dial" -> {"host", "port"}
      [] OTHER -> {}
Writes(t) ==
    CASE pc[t] = "Decode_id" -> {"id"}
      [] pc[t] = "Decode_host" -> {"host"}
      [] pc[t] = "Decode_port" -> {"port"}
      [] OTHER -> {}

\* Two tasks access one field at the same time, one of them writing: no lock and
\* no channel operation orders the two accesses.
RacesOn(f) ==
    \E t, u \in Tasks : t # u /\ f \in Writes(t) /\ f \in (Reads(u) \cup Writes(u))
DataRace == \E f \in {"id", "host", "port"} : RacesOn(f)

ID_call(t) ==
    /\ ~panicked /\ pc[t] = "idle"
    /\ pc' = [pc EXCEPT ![t] = "ID"]
    /\ ret' = NoRet
    /\ UNCHANGED <<idVars, sockVars, correlation_id, conn, lock, responses, done, req, promise,
                   rr, panicked, written, age, sinceConnect, sent, owed>>

\* return b.id
ID(t) ==
    /\ ~panicked /\ pc[t] = "ID"
    /\ pc' = [pc EXCEPT ![t] = "idle"]
    /\ ret' = RetValue(t, "ID", id)
    /\ UNCHANGED <<idVars, sockVars, correlation_id, conn, lock, responses, done, req, promise,
                   rr, panicked, written, age, sinceConnect, sent, owed>>

\* b.Equals(a) on this broker (b != nil): the two nil cases of the switch.
Equals(t, a) ==
    /\ ~panicked /\ pc[t] = "idle"
    /\ IF a.isNil
         THEN /\ ret' = RetValue(t, "Equals", FALSE)
              /\ UNCHANGED <<pc, arg>>
         ELSE /\ pc' = [pc EXCEPT ![t] = "Equals_id"]
              /\ arg' = [arg EXCEPT ![t] = a]
              /\ ret' = NoRet
    /\ UNCHANGED <<id, host, port, sockVars, correlation_id, conn, lock, responses, done, req,
                   promise, rr, panicked, written, age, sinceConnect, sent, owed>>

\* One operand of a.id == b.id && a.host == b.host && a.port == b.port; && stops
\* at the first operand that is false.
EqualsStep(t, at, same, next) ==
    /\ ~panicked /\ pc[t] = at
    /\ IF same /\ next # "idle"
         THEN /\ pc' = [pc EXCEPT ![t] = next]
              /\ ret' = NoRet
              /\ UNCHANGED arg
         ELSE /\ pc' = [pc EXCEPT ![t] = "idle"]
              /\ ret' = RetValue(t, "Equals", same)
              /\ arg' = [arg EXCEPT ![t] = NoArg]
    /\ UNCHANGED <<id, host, port, sockVars, correlation_id, conn, lock, responses, done, req,
                   promise, rr, written, age, sinceConnect, sent, owed>>

Equals_id(t) == EqualsStep(t, "Equals_id", arg[t].id = id, "Equals_host") /\ UNCHANGED panicked

\* a.port == b.port
PortEq_skipped(a, p) == TRUE
PortEq(a, p) == a.port = p

Equals_port(t) == EqualsStep(t, "Equals_port", PortEq(arg[t], port), "idle") /\ UNCHANGED panicked

\* Equals called on a nil *Broker: only the two nil cases of the switch can apply,
\* the comparison of the fields is not reached unless a is not nil either.
Equals_nil(t, a) ==
    /\ ~panicked /\ pc[t] = "idle"
    /\ ret' = RetValue(t, "Equals", a.isNil)
    /\ UNCHANGED <<idVars, sockVars, correlation_id, conn, lock, responses, done, pc, req,
                   promise, rr, panicked, written, age, sinceConnect, sent, owed>>

\* b.host is a string, two machine words: a read that races with a write can see
\* the pointer of one value and the length of the other, and the comparison then
\* reads memory it may not.
Equals_host(t, torn) ==
    IF torn
    THEN /\ ~panicked /\ pc[t] = "Equals_host" /\ RacesOn("host")
         /\ panicked' = TRUE
         /\ ret' = NoRet
         /\ UNCHANGED <<idVars, sockVars, correlation_id, conn, lock, responses, done, pc, req,
                        promise, rr, written, age, sinceConnect, sent, owed>>
    ELSE EqualsStep(t, "Equals_host", arg[t].host = host, "Equals_port") /\ UNCHANGED panicked

Decode(t) ==
    /\ ~panicked /\ pc[t] = "idle"
    /\ pc' = [pc EXCEPT ![t] = "Decode_id"]
    /\ ret' = NoRet
    /\ UNCHANGED <<idVars, sockVars, correlation_id, conn, lock, responses, done, req, promise,
                   rr, panicked, written, age, sinceConnect, sent, owed>>

\* One of b.id, err = pd.GetInt32() and its two successors: the field is assigned
\* whatever the decoder returned, then the error is checked.
DecodeStep(t, at, ok, next) ==
    /\ ~panicked /\ pc[t] = at
    /\ IF ok /\ next # "idle"
         THEN /\ pc' = [pc EXCEPT ![t] = next]
              /\ ret' = NoRet
         ELSE /\ pc' = [pc EXCEPT ![t] = "idle"]
              /\ ret' = IF ok THEN RetNil(t, "Decode") ELSE RetErr(t, "Decode", "DecodeError")
    /\ UNCHANGED <<arg, sockVars, correlation_id, conn, lock, responses, done, req, promise,
                   rr, panicked, written, age, sinceConnect, sent, owed>>

Decode_id(t, v, ok) ==
    DecodeStep(t, "Decode_id", ok, "Decode_host") /\ id' = v /\ UNCHANGED <<host, port>>
Decode_host(t, v, ok) ==
    DecodeStep(t, "Decode_host", ok, "Decode_port") /\ host' = v /\ UNCHANGED <<id, port>>
Decode_port(t, v, ok) ==
    DecodeStep(t, "Decode_port", ok, "idle") /\ port' = v /\ UNCHANGED <<id, host>>

\* ---------------------------------------------------------- specifications
Lifecycle ==
    \E t \in Managers :
        \/ Connect(t)
        \/ \E resolved, dialed \in BOOLEAN : ConnectDial(t, resolved, dialed)
        \/ Close(t)
        \/ \E closeErr \in BOOLEAN : CloseFinish(t, closeErr)

Senders ==
    \E t \in Callers :
        \/ \E rpc \in RPCs, acks \in Acks, encodes, writes \in BOOLEAN :
               sendAndReceive(t, rpc, acks, encodes, writes)
        \/ sendEnqueue(t)

WaitingSenders ==
    \E t \in Callers :
        \/ \E rpc \in RPCs, acks \in Acks : Call(t, rpc, acks)
        \/ \E encodes, writes \in BOOLEAN : sendLocked(t, encodes, writes)
        \/ sendEnqueue(t)

Dispatcher ==
    \/ rrRange
    \/ rrExit
    \/ rrReadHeader
    \/ rrReadBody
    \/ \E t \in Callers, decodes \in BOOLEAN : Deliver(t, decodes)

IdentityOf(t) ==
        \/ ID_call(t)
        \/ ID(t)
        \/ \E a \in OtherBrokers : Equals(t, a)
        \/ \E a \in OtherBrokers : Equals_nil(t, a)
        \/ Equals_id(t)
        \/ \E torn \in BOOLEAN : Equals_host(t, torn)
        \/ Equals_port(t)
        \/ Decode(t)
        \/ \E v \in BrokerIDs, ok \in BOOLEAN : Decode_id(t, v, ok)
        \/ \E v \in Hosts, ok \in BOOLEAN : Decode_host(t, v, ok)
        \/ \E v \in Ports, ok \in BOOLEAN : Decode_port(t, v, ok)

Identity == \E t \in Callers : IdentityOf(t)

\* Any peer: one that keeps the protocol, and one that breaks it.
Next ==
    \/ Lifecycle
    \/ Senders
    \/ Dispatcher
    \/ PeerRespond
    \/ PeerClose
    \/ PeerTruncate
    \/ PeerReorder
    \/ \E f \in BogusFrames : PeerBogus(f)

Spec == Init /\ [][Next]_vars

\* A peer that answers every request in the order it received them.
NextOrdered ==
    \/ Lifecycle
    \/ Senders
    \/ Dispatcher
    \/ PeerRespond
    \/ PeerClose

SpecOrdered == Init /\ [][NextOrdered]_vars

\* Callers that wait for the lock, an in-order peer, and the scheduler's fairness:
\* every goroutine that can run does; a caller waiting at Lock() gets the lock if
\* it is free again and again.  Nothing obliges the peer to send anything, or a
\* caller to call.
NextWait ==
    \/ Lifecycle
    \/ WaitingSenders
    \/ Dispatcher
    \/ PeerRespond
    \/ PeerClose

Fairness ==
    /\ WF_vars(Dispatcher)
    /\ \A t \in Callers : WF_vars(sendEnqueue(t))
    /\ \A t \in Callers : SF_vars(\E encodes, writes \in BOOLEAN : sendLocked(t, encodes, writes))
    /\ \A t \in Managers : WF_vars(\E resolved, dialed \in BOOLEAN : ConnectDial(t, resolved, dialed))
    /\ \A t \in Managers : WF_vars(\E closeErr \in BOOLEAN : CloseFinish(t, closeErr))

SpecWait == Init /\ [][NextWait]_vars /\ Fairness

\* A crowd of callers of an awaited request on one connection, enough to fill
\* the queue, and one caller of Produce without acknowledgement, who waits for
\* the lock; one connection, never closed, to a peer that accepts the requests
\* and answers nothing, so that the dispatcher waits in its first read; the
\* scheduler's fairness.  Idle callers of the crowd cannot be told apart, so the one with the
\* smallest number calls next.
FirstIdle(t) == pc[t] = "idle" /\ \A u \in Awaiters : u < t => pc[u] # "idle"

NextCrowd ==
    \/ \E t \in Managers : Connect(t)
    \/ \E t \in Managers, resolved, dialed \in BOOLEAN : ConnectDial(t, resolved, dialed)
    \/ \E t \in Awaiters :
           FirstIdle(t) /\ sendAndReceive(t, "GetMetadata", WAIT_FOR_LOCAL, TRUE, TRUE)
    \/ \E t \in Awaiters : sendEnqueue(t)
    \/ Call(NoAcker, "Produce", NO_RESPONSE)
    \/ sendLocked(NoAcker, TRUE, TRUE)
    \/ rrRange

FairnessCrowd ==
    /\ WF_vars(rrRange)
    /\ WF_vars(\E t \in Awaiters : sendEnqueue(t))
    /\ SF_vars(sendLocked(NoAcker, TRUE, TRUE))
    /\ \A t \in Managers : WF_vars(\E resolved, dialed \in BOOLEAN : ConnectDial(t, resolved, dialed))

SpecCrowd == Init /\ [][NextCrowd]_vars /\ FairnessCrowd

\* The crowd, and a socket whose send buffer may be full when the caller of
\* Produce writes.
NextPressure ==
    \/ NextCrowd
    \/ sendWriteBlocks(NoAcker)
    \/ sendWriteResumes(NoAcker, TRUE)

SpecPressure == Init /\ [][NextPressure]_vars

\* A crowd of callers of an awaited request, more than the queue holds, on one
\* connection to a peer that answers the requests in the order it received them,
\* or closes the socket.  The last caller of the crowd waits for the lock like
\* any caller; the others, which cannot be told apart, call in turn when the
\* lock is free.  The scheduler's fairness, and a peer
\* that goes on answering while there is a request to answer.
Waiter == QueueCap + 2

\* The callers of the crowd whose promises are unresolved, oldest first.
InFlight ==
    LET all == (IF Serving THEN <<rr.response.ch>> ELSE <<>>)
                   \o [i \in 1..Len(responses.q) |-> responses.q[i].ch]
                   \o (IF \E t \in Awaiters : pc[t] = "enqueue"
                       THEN <<CHOOSE t \in Awaiters : pc[t] = "enqueue">> ELSE <<>>)
    IN  SelectSeq(all, LAMBDA u : u # Waiter)

\* It is the turn of caller t of the crowd: the callers call one after the other
\* in a round, the first again when none has a promise unresolved.
InTurn(t) ==
    t = IF InFlight = <<>> THEN 1 ELSE (InFlight[Len(InFlight)] % (Waiter - 1)) + 1

NextProgress ==
    \/ \E t \in Managers : Connect(t)
    \/ \E t \in Managers : ConnectDial(t, TRUE, TRUE)
    \/ \E t \in Managers : Close(t)
    \/ \E t \in Managers : CloseFinish(t, FALSE)
    \/ \E t \in Awaiters \ {Waiter} :
           InTurn(t) /\ sendAndReceive(t, "GetMetadata", WAIT_FOR_LOCAL, TRUE, TRUE)
    \/ Call(Waiter, "GetMetadata", WAIT_FOR_LOCAL)
    \/ sendLocked(Waiter, TRUE, TRUE)
    \/ \E t \in Awaiters : sendEnqueue(t)
    \/ rrRange
    \/ rrExit
    \/ rrReadHeader
    \/ rrReadBody
    \/ \E t \in Awaiters : Deliver(t, TRUE)
    \/ PeerRespond
    \/ PeerClose

FairnessProgress ==
    /\ WF_vars(rrRange)
    /\ WF_vars(rrExit)
    /\ \A t \in Managers : WF_vars(CloseFinish(t, FALSE))
    /\ WF_vars(rrReadHeader)
    /\ WF_vars(rrReadBody)
    /\ WF_vars(\E t \in Awaiters : Deliver(t, TRUE))
    /\ WF_vars(\E t \in Awaiters : sendEnqueue(t))
    /\ SF_vars(sendLocked(Waiter, TRUE, TRUE))
    /\ \A t \in Managers : WF_vars(ConnectDial(t, TRUE, TRUE))
    /\ WF_vars(PeerRespond)

SpecProgress == Init /\ [][NextProgress]_vars /\ FairnessProgress

\* The lock-free methods beside Connect and Close.
NextIdentity ==
    \/ Lifecycle
    \/ rrExit
    \/ Identity

SpecIdentity == Init /\ [][NextIdentity]_vars

\* One goroutine alone uses the lock-free methods, so that no call of them runs
\* during another; Connect and Close beside it, so that the socket is open during
\* some of the calls and not during others.
NextEquals ==
    \/ Lifecycle
    \/ rrExit
    \/ IdentityOf(1)

SpecEquals == Init /\ [][NextEquals]_vars

\* ------------------------------------------------------------------ claims
\* The promises not yet resolved: made by send and about to be enqueued, in the
\* queue, or taken from the queue by the dispatcher and not yet answered.
Unresolved ==
    {promise[t] : t \in {u \in Callers : pc[u] = "enqueue"}}
        \cup {responses.q[i] : i \in 1..Len(responses.q)}
        \cup (IF Serving THEN {rr.response} ELSE {})

\* C1: with a peer that answers the awaited requests in the order it received
\* them, a caller of sendAndReceive that gets a payload gets the payload the peer
\* made for its own request, never that of another caller's request.
C1_OwnPayload ==
    (ret.op = "sendAndReceive" /\ ret.kind = "packet")
        => ret.buf = PeerBody([clientID |-> ret.task])

\* A caller gets its payload while another caller's request is in flight and the
\* stream holds bytes that are not its own.
C1_Witness ==
    /\ ret.op = "sendAndReceive" /\ ret.kind = "packet"
    /\ stream # <<>>
    /\ \E u \in Callers : u # ret.task /\ pc[u] = "await"

\* C2 as amended: no two unresolved promises carry the same correlation id, as
\* long as fewer requests than the counter has values were written after the
\* request of each; fire-and-forget requests count.
C2_DistinctWithinWrap ==
    \A p, q \in Unresolved :
        (p # q /\ age[p.ch] < CorrMod /\ age[q.ch] < CorrMod)
            => p.correlation_id # q.correlation_id

\* C2 as stated: no two unresolved promises of a connection carry the same
\* correlation id, in every interleaving of awaited and fire-and-forget requests,
\* a wrapped counter included.
C2_DistinctIDs ==
    \A p, q \in Unresolved : p # q => p.correlation_id # q.correlation_id

\* Two promises are unresolved, one made just before the counter wrapped and one
\* just after.
C2_Witness ==
    \E p, q \in Unresolved :
        /\ p.correlation_id = MaxCorr /\ q.correlation_id = MinCorr
        /\ age[p.ch] = 1 /\ age[q.ch] = 0

\* C3 as amended: request K, counting the successfully written requests of the
\* handle from 0 at NewBroker, carries the id K modulo the wrap width; Connect and
\* Close leave the counter alone.
C3_CountedFromNewBroker ==
    /\ correlation_id % CorrMod = written
    /\ \A t \in Callers :
         pc[t] = "enqueue" => promise[t].correlation_id % CorrMod = (written - 1) % CorrMod

\* C3 as stated: request K, counting from 0 at the most recent Connect, carries
\* the id K modulo the wrap width, also on a connection opened after a Close.
C3_CountedFromConnect ==
    conn = Open =>
        /\ correlation_id % CorrMod = sinceConnect
        /\ \A t \in Callers :
             pc[t] = "enqueue"
                 => promise[t].correlation_id % CorrMod = (sinceConnect - 1) % CorrMod

\* A request is written on a connection opened after earlier requests were
\* written on a previous one.
C3_Witness ==
    /\ conn = Open
    /\ sinceConnect # written
    /\ \E t \in Callers : pc[t] = "enqueue"

\* C4 as stated: Connect on an open socket returns AlreadyConnected and Close
\* without an open socket returns NotConnected, and neither changes the socket,
\* the queue, the shutdown signal, the counter or the dispatcher.
C4_MisuseRejected ==
    [][\A t \in Managers :
         /\ (Connect(t) /\ conn = Open)
              => /\ ret' = RetErr(t, "Connect", "AlreadyConnected")
                 /\ UNCHANGED <<conn, responses, done, correlation_id, rr, panicked>>
         /\ (Close(t) /\ conn # Open)
              => /\ ret' = RetErr(t, "Close", "NotConnected")
                 /\ UNCHANGED <<conn, responses, done, correlation_id, rr, panicked>>]_vars

\* C5 as amended: a sendAndReceive of a Produce without acknowledgement that
\* writes its request on the open socket returns nil, makes and enqueues no
\* promise and gives the dispatcher nothing to read for; while the connection
\* stays open it waits for the lock only, and gets it unless a sender waiting
\* to enqueue on the full queue holds it.
C5_NoAckProduce ==
    /\ [][(pc[NoAcker] = "send" /\ pc'[NoAcker] # "send" /\ written' # written)
            => /\ req[NoAcker] = NoAckProduce /\ conn = Open
               /\ ret' = RetNil(NoAcker, "sendAndReceive")
               /\ pc'[NoAcker] = "idle"
               /\ promise'[NoAcker] = NoPromise
               /\ UNCHANGED <<responses, rr, promise, lock, wire, stream, conn>>]_vars
    /\ (pc[NoAcker] = "send")
           ~> \/ pc[NoAcker] # "send"
              \/ (lock \in Awaiters /\ Len(responses.q) = QueueCap)
              \/ panicked

\* The Produce without acknowledgement returns while the queue holds promises
\* and the dispatcher waits for the peer's first answer.
C5_Witness ==
    /\ ret = RetNil(NoAcker, "sendAndReceive")
    /\ conn = Open /\ rr.pc = "readHeader" /\ Len(responses.q) >= 2

\* C5 as stated, the part about waiting: a caller of Produce without
\* acknowledgement gets its return whatever requests are in flight and whatever
\* the peer does, as long as the process lives.
C5_NeverWaitsOnPeer == (pc[NoAcker] = "send") ~> (pc[NoAcker] # "send" \/ panicked)

\* C6 as stated: after a frame whose id does not match the oldest promise, the
\* next promise, whose own well-framed response follows in the stream, is sent
\* the body of that response.
C6_NextUndisturbed ==
    [][\A t \in Callers :
         (owed = t /\ pc[t] = "await" /\ pc'[t] = "idle")
             => (rr.pc = "sendPackets" /\ rr.buf = PeerBody([clientID |-> t]))]_vars

\* C7 as stated: a Close that waits for the dispatcher returns, whether or not
\* the peer sends anything more.
C7_CloseReturns ==
    \A t \in Managers : (pc[t] = "closeWait") ~> (pc[t] = "idle")

\* C8: the dispatcher sends one value in all on the two channels of a promise it
\* dequeued, before it takes the next promise and to the caller that holds the
\* promise, who receives it once and then holds no promise.
C8_OneValue ==
    /\ [](/\ \A t \in Tasks : sent[t] <= 1
          /\ \A p \in Unresolved : pc[p.ch] \in {"enqueue", "await"} /\ promise[p.ch] = p
          /\ \A i \in 1..Len(responses.q) : sent[responses.q[i].ch] = 0
          /\ Serving => (sent[rr.response.ch] = 1 <=> rr.pc \in {"sendPackets", "sendErrors"}))
    /\ [][/\ rr.pc \in {"readHeader", "readBody"}
               => (Serving' /\ rr'.response = rr.response)
          /\ (rr.pc \in {"sendPackets", "sendErrors"} /\ rr' # rr)
               => /\ ~Serving'
                  /\ pc[rr.response.ch] = "await" /\ pc'[rr.response.ch] = "idle"
                  /\ ret'.task = rr.response.ch /\ ret'.kind \in {"packet", "err"}
                  /\ promise'[rr.response.ch] = NoPromise]_vars

\* A caller has received the decoding error of a mismatching id.
C8_Witness ==
    /\ ret.op = "sendAndReceive" /\ ret.err = "DecodingError"
    /\ promise[ret.task] = NoPromise /\ ~Serving

\* C9: a Close that returns leaves no socket, no queue, no shutdown signal and no
\* dispatcher, as NewBroker does; a Connect that follows is not rejected and, if
\* the dial succeeds, leaves an open socket, an empty queue, a fresh signal and a
\* dispatcher waiting on the queue; cycle after cycle.
C9_CloseResets ==
    [][\A t \in Managers :
         /\ (pc[t] = "closeWait" /\ pc'[t] = "idle")
              => /\ conn' = Nil /\ responses' = NilChan /\ done' = Nil
                 /\ rr'.pc = "none" /\ lock' = NoTask
                 /\ ~ConnectRejects(conn') /\ pc'[t] = "idle" /\ ~panicked'
         /\ (Connect(t) /\ conn = Nil) => pc'[t] = "dial"
         /\ (pc[t] = "dial" /\ ret' = RetNil(t, "Connect"))
              => /\ conn' = Open /\ responses' = MakeChan /\ done' = "open"
                 /\ rr'.pc = "range" /\ stream' = <<>> /\ ~eof' /\ lock' = NoTask]_vars

\* Connect succeeds on a handle that has already written requests on a connection
\* it closed.
C9_Witness == ret = RetNil(Manager, "Connect") /\ written > 0

\* C10 as stated: no field of the Broker is read or written by one task while
\* another task writes it, ID, Equals and Decode included.
C10_NoDataRace == ~DataRace

\* The broker of the model as an argument of Equals.
Self == [id |-> id, host |-> host, port |-> port, isNil |-> FALSE, eq |-> TRUE]

\* C11: Equals returns true exactly when both handles are nil, or neither is and
\* id, host and port are equal, whichever of the two is the receiver and whether
\* or not the socket is open.
C11_EqualsCorrect ==
    [][LET Same(b, a) ==
               \/ a.isNil /\ b.isNil
               \/ /\ ~a.isNil /\ ~b.isNil
                  /\ a.id = b.id /\ a.host = b.host /\ a.port = b.port
       IN  \A t \in Callers :
               /\ \A a \in OtherBrokers :
                     /\ Equals_nil(t, a)
                          => ret'.buf = <<Same(NoArg, a)>> /\ Same(NoArg, a) = Same(a, NoArg)
                     /\ (Equals(t, a) /\ ret' # NoRet)
                          => ret'.buf = <<Same(Self, a)>> /\ Same(Self, a) = Same(a, Self)
               /\ (pc[t] \in {"Equals_id", "Equals_host", "Equals_port"}
                       /\ ret'.task = t /\ ret'.op = "Equals")
                     => /\ ret'.buf = <<Same(Self, arg[t])>>
                        /\ Same(Self, arg[t]) = Same(arg[t], Self)]_vars

\* Equals returns true for a handle with an open socket and a decoded identity,
\* compared with a handle that has no socket.
C11_Witness ==
    /\ ret.op = "Equals" /\ ret.buf = <<TRUE>>
    /\ conn = Open /\ id # UnknownID /\ pc[1] = "idle" /\ arg[1] = NoArg

\* ---------------------------------------------------------------------- C12
IsSuffix(s, q) == Len(s) <= Len(q) /\ s = SubSeq(q, Len(q) - Len(s) + 1, Len(q))

\* The ids of the promises in the queue, oldest first, then the id of the promise
\* whose request is written and which its sender is about to enqueue.
QueuedIDs ==
    [i \in 1..Len(responses.q) |-> responses.q[i].correlation_id]
        \o (IF \E t \in Callers : pc[t] = "enqueue"
            THEN <<promise[CHOOSE t \in Callers : pc[t] = "enqueue"].correlation_id>>
            ELSE <<>>)
\* The ids of the awaited requests on the socket, in the order they were written.
WireIDs == [i \in 1..Len(wire) |-> wire[i].correlation_id]

\* C12: the promises enter the queue in the order the frames of their requests
\* were written to the socket: the ids queued and the ids written that the peer
\* has not answered yet are the ends of one sequence, and between the write of a
\* request and the enqueue of its promise no other request is written and no
\* other promise is enqueued.
C12_QueueOrder ==
    /\ [](IsSuffix(WireIDs, QueuedIDs) \/ IsSuffix(QueuedIDs, WireIDs))
    /\ [][/\ \A t \in Callers : pc[t] = "enqueue" =>
                 /\ written' = written /\ correlation_id' = correlation_id
                 /\ lock = t
                 /\ \A u \in Callers \ {t} : pc[u] # "enqueue"
          /\ Len(responses'.q) > Len(responses.q) =>
                 \E t \in Callers :
                     /\ pc[t] = "enqueue"
                     /\ responses'.q = Append(responses.q, promise[t])]_vars

\* Two requests are written and unanswered, the promise of the first is in the
\* queue and the sender of the second is about to enqueue its promise.
C12_Witness ==
    /\ Len(wire) = 2 /\ Len(responses.q) = 1
    /\ \E t \in Callers : pc[t] = "enqueue" /\ promise[t].correlation_id = wire[2].correlation_id
    /\ responses.q[1].correlation_id = wire[1].correlation_id
    /\ wire[1].correlation_id # wire[2].correlation_id

\* ---------------------------------------------------------------------- C13
\* C13: the dispatcher closes b.done once per connection, and only when Close has
\* closed the queue and every promise enqueued is resolved; Close closes the socket
\* and clears the fields only after that, so the dispatcher runs on an open socket only.
C13_ShutdownHandshake ==
    /\ [](rr.pc # "none" => conn = Open /\ done = "open" /\ responses.made)
    /\ [][/\ rrExit =>
                 /\ done = "open" /\ responses.closed /\ responses.q = <<>>
                 /\ \E t \in Managers : pc[t] = "closeWait"
                 /\ Unresolved = {} /\ \A u \in Callers : pc[u] # "await"
                 /\ rr'.pc = "none"
          /\ (done = "closed" /\ done' # done) =>
                 done' = Nil /\ \E t \in Managers, e \in BOOLEAN : CloseFinish(t, e)
          /\ \A t \in Managers : (pc[t] = "closeWait" /\ pc'[t] # "closeWait") =>
                 /\ done = "closed" /\ rr.pc = "none"
                 /\ conn = Open /\ conn' = Nil /\ responses' = NilChan]_vars

\* Close has closed the queue and waits for b.done while the dispatcher is still
\* busy with a promise enqueued before.
C13_Witness ==
    /\ \E t \in Managers : pc[t] = "closeWait"
    /\ responses.closed /\ Serving /\ done = "open" /\ responses.q # <<>>

\* ---------------------------------------------------------------------- C14
\* The four failures of one iteration of the dispatcher's loop.
Failures == {"ReadError", "HeaderError", "DecodingError"}

\* C14: a failed header read, header decode, id check or body read goes to the
\* one promise being served and to no other; the dispatcher takes the next
\* promise afterwards; the queue and the other callers' promises are as they
\* were; the handle stays connected until Close clears it.
C14_FailureIsolation ==
    /\ [](rr.pc = "sendErrors" =>
             /\ rr.err \in Failures
             /\ conn = Open /\ done = "open"
             /\ pc[rr.response.ch] = "await" /\ promise[rr.response.ch] = rr.response)
    /\ [][/\ (rr.pc # "sendErrors" /\ rr'.pc = "sendErrors") =>
                 /\ rr'.response = rr.response
                 /\ responses' = responses /\ promise' = promise /\ pc' = pc
                 /\ conn' = conn /\ done' = done /\ ret' = NoRet
          /\ (rr.pc \in {"readHeader", "readBody"} /\ rr' # rr) => Serving'
          /\ (rr.pc = "sendErrors" /\ rr' # rr) =>
                 /\ ret' = RetErr(rr.response.ch, "sendAndReceive", rr.err)
                 /\ \A u \in Tasks \ {rr.response.ch} :
                        pc'[u] = pc[u] /\ promise'[u] = promise[u]
                 /\ responses' = responses
                 /\ rr'.pc = "range"
                 /\ conn' = Open /\ done' = "open"
          /\ (conn = Open /\ conn' # Open) =>
                 \E t \in Managers, e \in BOOLEAN : CloseFinish(t, e)
          /\ (ret'.op = "sendAndReceive" /\ ret'.err = "NotConnected") => conn = Nil]_vars

\* A caller has just been sent the mismatch error of its promise; the dispatcher
\* is back at the queue, where the promise of another caller waits.
C14_Witness ==
    /\ ret.kind = "err" /\ ret.err = "DecodingError" /\ pc[ret.task] = "idle"
    /\ rr.pc = "range" /\ responses.q # <<>> /\ conn = Open
    /\ \E u \in Callers : u # ret.task /\ pc[u] = "await" /\ responses.q[1] = promise[u]

\* ---------------------------------------------------------------------- C15
\* C15: the dispatcher reads a body and sends a payload only for a promise whose
\* header carried the promise's id, and a caller gets a payload only so; a
\* decoded header with another id brings the promise being served the decoding
\* error, the first such header on a connection like every later one.
C15_PayloadOnlyOnMatch ==
    /\ [](rr.pc \in {"readBody", "sendPackets"} =>
             rr.header.correlation_id = rr.response.correlation_id)
    /\ [][/\ (rr.pc = "readHeader" /\ rr' # rr /\ Len(stream) >= HeaderWords) =>
                 LET header == SubSeq(stream, 1, HeaderWords) IN
                 (/\ ~HeaderDecodeFails(header)
                  /\ DecodeHeader(header).correlation_id # rr.response.correlation_id)
                     => /\ rr'.pc = "sendErrors" /\ rr'.err = "DecodingError"
                        /\ rr'.response = rr.response
          /\ (rr.pc = "sendErrors" /\ rr.err = "DecodingError" /\ rr' # rr) =>
                 ret' = RetErr(rr.response.ch, "sendAndReceive", "DecodingError")
          /\ \A t \in Callers :
                 (ret'.task = t /\ ret'.op = "sendAndReceive" /\ ret'.kind = "packet") =>
                     /\ rr.pc = "sendPackets" /\ rr.response = promise[t]
                     /\ rr.header.correlation_id = promise[t].correlation_id]_vars

\* The caller served when the peer's first frame of a wrong id arrived has just
\* been sent the decoding error.
C15_Witness ==
    /\ ret.op = "sendAndReceive" /\ ret.kind = "err" /\ ret.err = "DecodingError"
    /\ faulty = 1 /\ stream = <<>> /\ rr.pc = "range"

\* ---------------------------------------------------------------------- C16
\* The dispatcher is about to read the first frame by which the peer left the
\* order of the requests: the whole, well-framed answer to a promise that is
\* behind the one being served.
FirstOutOfOrder ==
    /\ rr.pc = "readHeader" /\ faulty = 1
    /\ \E p \in Unresolved \ {rr.response} :
           /\ p.correlation_id # rr.response.correlation_id
           /\ stream = Frame(p.correlation_id, PeerBody([clientID |-> p.ch]))

\* C16 as amended: the first response the peer sends out of order is detected when
\* its header is read: the promise being served is sent the decoding error, and
\* its caller returns that error and no payload.
C16_DetectedAtFirst ==
    /\ [](FirstOutOfOrder => pc[rr.response.ch] = "await" /\ sent[rr.response.ch] = 0)
    /\ [][(FirstOutOfOrder /\ rr' # rr) =>
              /\ rr'.pc = "sendErrors" /\ rr'.err = "DecodingError"
              /\ rr'.response = rr.response
              /\ ret' = NoRet
              /\ stream' = SubSeqFrom(stream, HeaderWords + 1)]_vars

\* The dispatcher has read the header of the answer to the next promise in the
\* queue while serving the one before it, and is about to send the decoding error.
C16_Witness ==
    /\ rr.pc = "sendErrors" /\ rr.err = "DecodingError" /\ faulty = 1
    /\ responses.q # <<>>
    /\ rr.header.correlation_id = Head(responses.q).correlation_id
    /\ stream = PeerBody([clientID |-> Head(responses.q).ch])

\* C16 as stated: the first response out of order passes the dispatcher's check
\* and is on its way to the caller being served as a payload.
C16_FirstMisattributed ==
    [][(FirstOutOfOrder /\ rr' # rr) => rr'.pc = "readBody"]_vars

\* ---------------------------------------------------------------------- C17
\* Caller t is inside send and cannot go on: it waits at b.lock.Lock(), in
\* b.conn.Write, or at b.responses <- promise.
Suspended(t) ==
    /\ ~panicked
    /\ \/ pc[t] = "send" /\ ~ENABLED sendLocked(t, TRUE, TRUE)
       \/ pc[t] = "write"
       \/ pc[t] = "enqueue" /\ ~ENABLED sendEnqueue(t)

\* Another task holds b.lock.
LockHeldByOther(t) == lock # NoTask /\ lock # t
\* The caller is at the enqueue and the queue holds QueueCap promises.
QueueFull(t) == pc[t] = "enqueue" /\ Len(responses.q) = QueueCap

\* No call of send, Connect or Close by another task than t gets past the lock.
OthersWait(t) ==
    /\ \A m \in Managers : ~ENABLED Connect(m) /\ ~ENABLED Close(m)
    /\ \A u \in (Awaiters \cup {NoAcker}) \ {t} :
           /\ ~ENABLED sendAndReceive(u, "GetMetadata", WAIT_FOR_LOCAL, TRUE, TRUE)
           /\ ~ENABLED sendLocked(u, TRUE, TRUE)
           /\ ~ENABLED sendWriteBlocks(u)

\* C17 as amended: the queue never holds more than QueueCap promises; a sender
\* with its request written is stopped at the enqueue exactly when the queue is
\* full, and it holds the lock there, so that no other send, Connect or Close
\* gets past the lock; a caller is suspended inside send only at the lock held
\* by another task, at the full queue, or in the write to the socket.
C17_Backpressure ==
    /\ Len(responses.q) <= QueueCap
    /\ \A t \in Awaiters : pc[t] = "enqueue" =>
           /\ lock = t
           /\ ~panicked => ((~ENABLED sendEnqueue(t)) <=> Len(responses.q) = QueueCap)
           /\ OthersWait(t)
    /\ \A t \in Awaiters \cup {NoAcker} :
           Suspended(t) => LockHeldByOther(t) \/ QueueFull(t) \/ pc[t] = "write"

\* The queue is full, a sender is stopped at the enqueue, and the caller of
\* Produce waits for the lock.
C17_Witness ==
    /\ Len(responses.q) = QueueCap
    /\ \E t \in Awaiters : Suspended(t) /\ QueueFull(t)
    /\ Suspended(NoAcker) /\ LockHeldByOther(NoAcker)

\* C17 as stated, its last part: a caller is suspended inside send only at the
\* lock held by another task or at the full queue.
C17_OnlyQueueOrLock ==
    \A t \in Awaiters \cup {NoAcker} : Suspended(t) => LockHeldByOther(t) \/ QueueFull(t)

\* ---------------------------------------------------------------------- C18
\* The errors send returns before the counter is touched.
SendErrors == {"NotConnected", "EncodeError", "WriteError"}

\* C18: the counter goes up by one, wrapping, with every request written, awaited
\* or not, and changes in no other step; a send that returns NotConnected, an
\* encode error or a write error makes no promise and leaves the counter and
\* the queue as they were.
C18_CountsWrittenOnly ==
    [][LET up == IF correlation_id = MaxCorr THEN MinCorr ELSE correlation_id + 1
           wrote == written' # written
       IN  /\ wrote => correlation_id' = up
           /\ ~wrote => correlation_id' = correlation_id
           /\ wrote <=> \E t \in Callers :
                  \/ ret' = RetNil(t, "sendAndReceive")
                  \/ pc[t] # "enqueue" /\ pc'[t] = "enqueue"
           /\ \A t \in Callers :
                  (ret'.task = t /\ ret'.op = "sendAndReceive" /\ ret'.kind = "err"
                        /\ ret'.err \in SendErrors) =>
                      /\ correlation_id' = correlation_id
                      /\ responses' = responses
                      /\ promise' = promise /\ promise[t] = NoPromise
                      /\ wire' = wire]_vars

\* A send has just returned a write error on a connection whose counter has
\* counted requests and whose queue holds a promise.
C18_Witness ==
    /\ ret.op = "sendAndReceive" /\ ret.kind = "err" /\ ret.err = "WriteError"
    /\ correlation_id # 0 /\ responses.q # <<>> /\ sinceConnect > 0

\* ---------------------------------------------------------------------- C19
\* C19: with a peer that answers every awaited request in order, or whose socket
\* fails, and a fair scheduler, every caller inside sendAndReceive on the
\* connected handle returns, with more callers than the queue holds: the one
\* waiting for the lock, the one stopped at the full queue, and those awaiting
\* their promise.
C19_EveryCallReturns ==
    \A t \in Awaiters : []<>(pc[t] = "idle")

\* The queue is full, one promise is with the dispatcher, a sender is stopped
\* at the enqueue holding the lock, and the last caller waits for the lock.
C19_Witness ==
    /\ Len(responses.q) = QueueCap
    /\ \E t \in Awaiters : pc[t] = "enqueue" /\ lock = t
    /\ pc[Waiter] = "send"

\* ---------------------------------------------------------------------- C20
\* C20 as stated: a Connect that returns a resolution or dial error leaves the
\* handle disconnected, with no socket, queue, shutdown signal or dispatcher, so
\* that a Connect after it dials again and no Close or send after it crashes.
C20_FailedConnectDisconnects ==
    /\ [](~panicked)
    /\ [][\A t \in Managers :
            (ret'.task = t /\ ret'.op = "Connect" /\ ret'.kind = "err"
                  /\ ret'.err \in {"ResolveError", "DialError"}) =>
                /\ conn' = Nil /\ responses' = NilChan /\ done' = Nil /\ rr'.pc = "none"
                /\ ~ConnectRejects(conn') /\ CloseRejects(conn')]_vars

\* A Connect has just returned the dial error and b.conn holds the nil *TCPConn.
C20_Witness ==
    /\ ret.op = "Connect" /\ ret.kind = "err" /\ ret.err = "DialError"
    /\ conn = NilPtr /\ responses = NilChan /\ done = Nil /\ rr.pc = "none"

====
